---- MODULE Spec2Model ----
(***************************************************************************)
(* CashFlow AI ML service: the forecast pipeline of                        *)
(* apps/ml-service/main.py (run_forecast_pipeline and the functions it     *)
(* calls) as a state machine.  One forecast run of one company is          *)
(* modelled; the state is the rows of the database the pipeline touches    *)
(* (forecast_runs, forecasts, alerts, and the read-only transactions and   *)
(* bank_accounts), plus the local variables of the running background      *)
(* task.  Every action ends at a session.commit() or at a raise, so the    *)
(* states of the model are the states a concurrent reader can observe.     *)
(*                                                                         *)
(* Units.  Money in the database is in cents (integers).  The data frame   *)
(* values are kept in cents as well (the code divides by 100 and works in  *)
(* float dollars: the model value is 100 times the code's value, which     *)
(* leaves equality with zero, differences' signs and ratios unchanged).    *)
(* Prophet's point forecast yhat is kept in thousandths of a dollar, so    *)
(* that int(yhat * 100) truncates.                                         *)
(***************************************************************************)
EXTENDS Integers, Sequences, FiniteSets, TLC

(***************************************************************************)
(* Program constants                                                       *)
(***************************************************************************)
MinHistoryDays == 90
MinAccuracyDays == 120
HoldoutDays == 30
MinHorizon == 7
ShortageDivisor == 5

\* Bounds of the model
MaxTriggers == 2
NumAlertIds == 2
MaxYhat == 30

Scenarios == <<"pessimistic", "baseline", "optimistic">>

\* Exceptions, by the message str(e) the except block stores
InsufficientHistory == "Insufficient transaction history (need 90+ days)"
StorageError == "storage error"
ForecastFitError == "prophet fit error"
BroadcastError == "operands could not be broadcast together"
InvalidJsonError == "invalid input syntax for type json"
AlertError == "alert derivation error"

VARIABLES
    pc,                \* position of the background task
    triggers,          \* number of POST /forecast requests served for the run
    status,            \* forecast_runs.status
    error_message,     \* forecast_runs.error_message
    metrics_col,       \* forecast_runs.accuracy_metrics (jsonb)
    forecasts,         \* table forecasts: rows in insertion order
    alerts,            \* table alerts: set of rows, primary key id
    transactions,      \* table transactions: the parameters of its daily rows (TxSeries)
    current_balance,   \* SUM(bank_accounts.current_balance), active accounts; 0 if none
    prophet,           \* Prophet's point forecasts: scenario -> yhat per future day
    holdout_yhat,      \* yhat of the holdout model of calculate_accuracy, the same every day
    horizon_days,      \* request.horizon_days
    df,                \* local: the Prophet data frame, released when the task returns
    si,                \* local: index of the scenario in the for loop
    fc,                \* local: forecasts of the current scenario
    accuracy_metrics,  \* local: accuracy_metrics dict
    alert_inserts,     \* local: parameters of the INSERTs generate_forecast_alerts executed
    raised,            \* local: the exception e caught by the except block, or "none"
    commits            \* the session.commit() calls of the current execution, in order

vars == <<pc, triggers, status, error_message, metrics_col, forecasts, alerts,
          transactions, current_balance, prophet, holdout_yhat, horizon_days,
          df, si, fc, accuracy_metrics, alert_inserts, raised, commits>>

env == <<transactions, current_balance, prophet, holdout_yhat, horizon_days>>

(***************************************************************************)
(* Arithmetic helpers                                                      *)
(***************************************************************************)
Abs(x) == IF x < 0 THEN -x ELSE x

Min(a, b) == IF a < b THEN a ELSE b

\* int(x / d) of Python for d > 0: truncation toward zero
TruncDiv(x, d) == IF x >= 0 THEN x \div d ELSE -((-x) \div d)

\* round to nearest of n / d, n >= 0, d > 0
RoundDiv(n, d) == (2 * n + d) \div (2 * d)

\* floor of the square root of n >= 0
ISqrt(n) == CHOOSE r \in 0..n : r * r <= n /\ (r + 1) * (r + 1) > n

RECURSIVE SumRange(_, _, _)
\* s[lo] + ... + s[hi], by halving
SumRange(s, lo, hi) ==
    IF lo > hi THEN 0
    ELSE IF lo = hi THEN s[lo]
    ELSE SumRange(s, lo, (lo + hi) \div 2) + SumRange(s, (lo + hi) \div 2 + 1, hi)

SumSeq(s) == SumRange(s, 1, Len(s))

(***************************************************************************)
(* Balance Series Builder                                                  *)
(***************************************************************************)
\* the daily rows of the table: t.days rows; the first day's amount is
\* t.first, the last day's is t.last, the days between sum to 0; from row
\* t.gap_row on the dates are t.gap_days later
TxSeries(t) ==
    [i \in 1..t.days |->
        [ds |-> i + (IF i >= t.gap_row THEN t.gap_days ELSE 0),
         amount |-> IF i = 1 THEN t.first ELSE IF i = t.days THEN t.last ELSE 0]]

\* fetch_transactions: the GROUP BY day / ORDER BY ds rows of the company
FetchTransactions == TxSeries(transactions)

RECURSIVE CumSum(_, _, _, _)
\* df["amount"].cumsum() over rows lo..hi on top of acc, by halving
CumSum(rows, lo, hi, acc) ==
    IF lo > hi THEN <<>>
    ELSE IF lo = hi THEN <<[ds |-> rows[lo].ds, y |-> acc + rows[lo].amount]>>
    ELSE LET mid == (lo + hi) \div 2
             left == CumSum(rows, lo, mid, acc)
         IN left \o CumSum(rows, mid + 1, hi, left[Len(left)].y)

\* prepare_prophet_data: y is the cumulative balance
PrepareProphetData(rows) == CumSum(rows, 1, Len(rows), 0)

(***************************************************************************)
(* Prophet, as far as the pipeline depends on it                           *)
(***************************************************************************)
\* model.make_future_dataframe(periods): the history dates, then `periods`
\* daily dates after the last history date
MakeFutureDataframe(hist, periods) ==
    [i \in 1..Len(hist) |-> hist[i].ds]
        \o [i \in 1..periods |-> hist[Len(hist)].ds + i]

\* model.predict(future): one row per date of future; yhat of the k-th day
\* after the history is oracle[k] (in-sample rows carry the first value)
Predict(hist, future, oracle) ==
    [j \in 1..Len(future) |->
        [ds |-> future[j],
         yhat |-> IF future[j] > hist[Len(hist)].ds
                    THEN oracle[future[j] - hist[Len(hist)].ds]
                    ELSE oracle[1]]]

\* generate_prophet_forecast: only the rows after the last observed date
GenerateProphetForecast(hist, horizon, scenario) ==
    LET future == MakeFutureDataframe(hist, horizon)
        forecast == Predict(hist, future, prophet[scenario])
    IN SelectSeq(forecast, LAMBDA r : r.ds > hist[Len(hist)].ds)

(***************************************************************************)
(* Accuracy Evaluator                                                      *)
(***************************************************************************)
None == [kind |-> "None", val |-> 0]
Inf == [kind |-> "inf", val |-> 0]
NaN == [kind |-> "nan", val |-> 0]
Num(v) == [kind |-> "number", val |-> v]

UndefinedMetrics == [mape |-> None, rmse |-> None, mae |-> None]
\* accuracy_metrics = {}: no key is present
EmptyDict == [mape |-> [kind |-> "absent", val |-> 0],
              rmse |-> [kind |-> "absent", val |-> 0],
              mae |-> [kind |-> "absent", val |-> 0]]

\* historical.iloc[:-30] and historical.iloc[-30:]
Train(hist) == SubSeq(hist, 1, Len(hist) - HoldoutDays)
Test(hist) == SubSeq(hist, Len(hist) - HoldoutDays + 1, Len(hist))

\* predictions[predictions["ds"].isin(test["ds"])]
HoldoutPredictions(hist) ==
    LET train == Train(hist)
        test == Test(hist)
        future == MakeFutureDataframe(train, HoldoutDays)
        predictions == Predict(train, future, [i \in 1..HoldoutDays |-> holdout_yhat])
    IN SelectSeq(predictions,
                 LAMBDA r : \E k \in 1..Len(test) : test[k].ds = r.ds)

\* numpy broadcasting of y_true (n values) against y_pred (m values)
Broadcastable(n, m) == m = n \/ m = 1 \/ n = 1

\* the (true, predicted) pairs of y_true - y_pred, with the dates they carry,
\* both values in thousandths of a dollar
ComparedPairs(hist) ==
    LET test == Test(hist)
        predictions == HoldoutPredictions(hist)
        y_pred == SubSeq(predictions, 1, Min(Len(predictions), Len(test)))
    IN [i \in 1..Len(test) |->
          LET p == IF Len(y_pred) = 1 THEN y_pred[1] ELSE y_pred[i]
          IN [true_ds |-> test[i].ds, pred_ds |-> p.ds,
              y_true |-> 10 * test[i].y, y_pred |-> p.yhat]]

\* np.mean(np.abs((y_true - y_pred) / y_true)) * 100, in hundredths:
\* x / 0 is inf for x # 0 and nan for x = 0; a nan term makes the mean nan,
\* otherwise an inf term makes it inf
Mape(pairs) ==
    LET n == Len(pairs)
    IN IF \E i \in 1..n : pairs[i].y_true = 0 /\ pairs[i].y_pred = 0 THEN NaN
       ELSE IF \E i \in 1..n : pairs[i].y_true = 0 THEN Inf
       ELSE Num(RoundDiv(SumSeq([i \in 1..n |->
                    (Abs(pairs[i].y_true - pairs[i].y_pred) * 1000000)
                        \div Abs(pairs[i].y_true)]), n * 100))

\* np.sqrt(np.mean((y_true - y_pred) ** 2)), in thousandths of a dollar
Rmse(pairs) ==
    LET n == Len(pairs)
        sq == SumSeq([i \in 1..n |->
                (pairs[i].y_true - pairs[i].y_pred) * (pairs[i].y_true - pairs[i].y_pred)])
    IN Num(ISqrt(sq \div n))

\* np.mean(np.abs(y_true - y_pred)), in thousandths of a dollar
Mae(pairs) ==
    LET n == Len(pairs)
    IN Num(RoundDiv(SumSeq([i \in 1..n |->
                Abs(pairs[i].y_true - pairs[i].y_pred)]), n))

\* calculate_accuracy: [raised |-> the exception or "none", metrics |-> the dict]
CalculateAccuracy(hist) ==
    IF Len(hist) < MinAccuracyDays
      THEN [raised |-> "none", metrics |-> UndefinedMetrics]
    ELSE LET predictions == HoldoutPredictions(hist)
             y_true == Test(hist)
             y_pred == SubSeq(predictions, 1, Min(Len(predictions), Len(y_true)))
         IN IF Len(predictions) = 0
              THEN [raised |-> "none", metrics |-> UndefinedMetrics]
            ELSE IF ~Broadcastable(Len(y_true), Len(y_pred))
              THEN [raised |-> BroadcastError, metrics |-> EmptyDict]
            ELSE LET pairs == ComparedPairs(hist)
                 IN [raised |-> "none",
                     metrics |-> [mape |-> Mape(pairs), rmse |-> Rmse(pairs),
                                  mae |-> Mae(pairs)]]

(***************************************************************************)
(* forecast_runs.accuracy_metrics: str(dict).replace("'", '"') cast ::jsonb *)
(***************************************************************************)
\* repr() of a metric value as it appears in str(accuracy_metrics)
PyRepr(v) == IF v.kind = "number" THEN <<"number", v.val>> ELSE <<v.kind, 0>>

\* str(accuracy_metrics).replace("'", '"'): key -> value token, for the keys
\* the dict holds
MetricsText(m) == [k \in {x \in DOMAIN m : m[x].kind # "absent"} |-> PyRepr(m[k])]

\* a token PostgreSQL's json parser accepts as a value
JsonValue(tok) == tok[1] \in {"number", "null", "true", "false"}

\* the ::jsonb cast succeeds iff every value token is JSON
ValidJson(txt) == \A k \in DOMAIN txt : JsonValue(txt[k])

(***************************************************************************)
(* Alert Deriver                                                           *)
(***************************************************************************)
RECURSIVE InsertByDate(_, _)
InsertByDate(row, sorted) ==
    IF sorted = <<>> THEN <<row>>
    ELSE IF row.forecast_date < sorted[1].forecast_date THEN <<row>> \o sorted
    ELSE <<sorted[1]>> \o InsertByDate(row, Tail(sorted))

RECURSIVE OrderByDate(_)
OrderByDate(rows) ==
    IF rows = <<>> THEN <<>>
    ELSE InsertByDate(rows[Len(rows)], OrderByDate(SubSeq(rows, 1, Len(rows) - 1)))

\* SELECT ... FROM forecasts WHERE scenario = 'baseline' ORDER BY forecast_date
SelectBaseline(table) ==
    OrderByDate(SelectSeq(table, LAMBDA r : r.scenario = "baseline"))

\* the comparison with <= in place of <
BelowThreshold_Inclusive(predicted, balance) == ShortageDivisor * predicted <= balance

\* predicted < current_balance * 0.2 on integers: for an integer balance b
\* the float product b * 0.2 rounds to b / 5 exactly when 5 divides b and
\* lies strictly between two integers otherwise
BelowThreshold(predicted, balance) == ShortageDivisor * predicted < balance

RECURSIVE ScanForShortage_NoBreak(_, _, _)
\* the for loop without its break
ScanForShortage_NoBreak(rows, i, balance) ==
    IF i > Len(rows) THEN <<>>
    ELSE IF ShortageDivisor * rows[i].predicted_balance < balance
      THEN <<[alert_type |-> "cash_shortage", severity |-> "critical",
              date |-> rows[i].forecast_date,
              amount |-> rows[i].predicted_balance]>>
                \o ScanForShortage_NoBreak(rows, i + 1, balance)
    ELSE ScanForShortage_NoBreak(rows, i + 1, balance)

RECURSIVE ScanForShortage(_, _, _)
\* the for loop of generate_forecast_alerts from row i on: the INSERTs executed
ScanForShortage(rows, i, balance) ==
    IF i > Len(rows) THEN <<>>
    ELSE IF BelowThreshold(rows[i].predicted_balance, balance)
      THEN <<[alert_type |-> "cash_shortage", severity |-> "critical",
              date |-> rows[i].forecast_date,
              amount |-> rows[i].predicted_balance]>>
    ELSE ScanForShortage(rows, i + 1, balance)

\* INSERT INTO alerts ... ON CONFLICT DO NOTHING: the only key the statement
\* supplies is the primary key id
InsertAlert(table, id, params) ==
    IF \E a \in table : a.id = id THEN table
    ELSE table \cup {[id |-> id, alert_type |-> params.alert_type,
                      severity |-> params.severity,
                      predicted_date |-> params.date,
                      predicted_amount |-> params.amount]}

RECURSIVE InsertAlerts(_, _, _)
InsertAlerts(table, ids, inserts) ==
    IF inserts = <<>> THEN table
    ELSE InsertAlerts(InsertAlert(table, ids[1], inserts[1]), Tail(ids), Tail(inserts))

(***************************************************************************)
(* Inputs: the read-only tables and Prophet's outputs                      *)
(***************************************************************************)
Tx(n, a, d, q, g) ==
    [days |-> n, first |-> a, last |-> d, gap_row |-> q, gap_days |-> g]

\* histories too short for the pipeline or for the holdout validation
ShortHistories ==
    {Tx(n, 2, 0, 1, 0) : n \in {MinHistoryDays - 1, MinHistoryDays, MinAccuracyDays - 1}}

\* 120-day histories: balance 0 or not at the start and at the end of the
\* holdout window, daily dates or a gap before the first or the last test day
LongHistories ==
    {Tx(MinAccuracyDays, a, d, 1, 0) : a \in {0, 2}, d \in {0, -2}}
      \cup {Tx(MinAccuracyDays, a, d, q, g) :
              a \in {0, 2}, d \in {0, -2},
              q \in {MinAccuracyDays - HoldoutDays + 1, MinAccuracyDays},
              g \in {1, HoldoutDays - 1, HoldoutDays}}

\* a regular 120-day history with no zero balance
RegularHistory == Tx(MinAccuracyDays, 2, 0, 1, 0)

\* yhat in thousandths of a dollar
YhatVals == {-10, -5, 15, MaxYhat}

BaselineYhats(h, vals) ==
    {[i \in 1..h |-> IF i = 2 THEN v ELSE IF i = 5 THEN w ELSE MaxYhat] :
        v \in vals, w \in vals}

Balances == {0, 10}

Horizons == {MinHorizon}

\* the inputs of a run: the rows of transactions, the holdout model's yhat,
\* the values the baseline model's yhat takes, the balance of the active accounts
PipelineInputs ==
    (ShortHistories \cup {RegularHistory,
                          Tx(MinAccuracyDays, 2, -2, 1, 0),
                          Tx(MinAccuracyDays, 2, 0, MinAccuracyDays, 1)})
        \X {1} \X {{-10, MaxYhat}} \X Balances

AccuracyInputs == LongHistories \X {0, 1} \X {{MaxYhat}} \X {10}

AlertInputs == {RegularHistory} \X {1} \X {YhatVals} \X Balances

InitWith(inputs) ==
    /\ pc = "idle"
    /\ triggers = 0
    /\ status = "pending"
    /\ error_message = "none"
    /\ metrics_col = <<>>
    /\ forecasts = <<>>
    /\ alerts = {}
    /\ horizon_days \in Horizons
    /\ \E in \in inputs :
          /\ transactions = in[1]
          /\ holdout_yhat = in[2]
          /\ current_balance = in[4]
          /\ \E b \in BaselineYhats(horizon_days, in[3]) :
                prophet = [s \in {"pessimistic", "baseline", "optimistic"} |->
                              IF s = "baseline" THEN b
                              ELSE IF s = "pessimistic"
                                THEN [i \in 1..horizon_days |-> -10]
                              ELSE [i \in 1..horizon_days |-> MaxYhat]]
    /\ df = <<>>
    /\ si = 0
    /\ fc = <<>>
    /\ accuracy_metrics = EmptyDict
    /\ alert_inserts = <<>>
    /\ raised = "none"
    /\ commits = <<>>

Init == InitWith(PipelineInputs)

InitAccuracy == InitWith(AccuracyInputs)

InitAlerts == InitWith(AlertInputs)

(***************************************************************************)
(* The pipeline                                                            *)
(***************************************************************************)
\* raise e inside the try block: the session is rolled back and closed, the
\* except block runs next
Raise(e) ==
    /\ raised' = e
    /\ pc' = "except"

\* POST /forecast: background_tasks.add_task(run_forecast_pipeline, ...)
generate_forecast ==
    /\ pc \in {"idle", "done"}
    /\ triggers < MaxTriggers
    /\ triggers' = triggers + 1
    /\ pc' = "mark_processing"
    /\ df' = <<>>
    /\ si' = 0
    /\ fc' = <<>>
    /\ accuracy_metrics' = EmptyDict
    /\ alert_inserts' = <<>>
    /\ raised' = "none"
    /\ commits' = <<>>
    /\ UNCHANGED <<status, error_message, metrics_col, forecasts, alerts, env>>

\* UPDATE forecast_runs SET status = 'processing'; commit
MarkProcessing ==
    /\ pc = "mark_processing"
    /\ \/ /\ status' = "processing"
          /\ commits' = Append(commits, "processing")
          /\ pc' = "fetch"
          /\ UNCHANGED raised
       \/ /\ Raise(StorageError)
          /\ UNCHANGED <<status, commits>>
    /\ UNCHANGED <<df, triggers, error_message, metrics_col, forecasts, alerts, env,
                   si, fc, accuracy_metrics, alert_inserts>>

\* the pipeline without the 90-day check
FetchAndPrepare_NoCheck ==
    /\ pc = "fetch"
    /\ \/ /\ Raise(StorageError)
          /\ UNCHANGED <<df, si>>
       \/ /\ df' = PrepareProphetData(FetchTransactions)
          /\ si' = 1
          /\ pc' = "fit"
          /\ UNCHANGED raised
    /\ UNCHANGED <<triggers, status, error_message, metrics_col, forecasts, alerts,
                   env, fc, accuracy_metrics, alert_inserts, commits>>

\* fetch_transactions, the 90-day check, prepare_prophet_data
FetchAndPrepare ==
    /\ pc = "fetch"
    /\ \/ /\ Raise(StorageError)
          /\ UNCHANGED <<df, si>>
       \/ /\ Len(FetchTransactions) < MinHistoryDays
          /\ Raise(InsufficientHistory)
          /\ UNCHANGED <<df, si>>
       \/ /\ Len(FetchTransactions) >= MinHistoryDays
          /\ df' = PrepareProphetData(FetchTransactions)
          /\ si' = 1
          /\ pc' = "fit"
          /\ UNCHANGED raised
    /\ UNCHANGED <<triggers, status, error_message, metrics_col, forecasts, alerts,
                   env, fc, accuracy_metrics, alert_inserts, commits>>

\* generate_prophet_forecast for the scenario of this iteration
FitScenario ==
    /\ pc = "fit"
    /\ \/ /\ Raise(ForecastFitError)
          /\ UNCHANGED fc
       \/ /\ fc' = GenerateProphetForecast(df, horizon_days, Scenarios[si])
          /\ pc' = "store"
          /\ UNCHANGED raised
    /\ UNCHANGED <<df, triggers, status, error_message, metrics_col, forecasts, alerts,
                   env, si, accuracy_metrics, alert_inserts, commits>>

\* the rows store_forecasts inserts for one scenario
ForecastRows(rows, scenario) ==
    [i \in 1..Len(rows) |->
        [scenario |-> scenario,
         forecast_date |-> rows[i].ds,
         predicted_balance |-> TruncDiv(rows[i].yhat, 10)]]

\* the for loop leaving out the last scenario
NextIteration_SkipLast ==
    IF si < Len(Scenarios) - 1
      THEN pc' = "fit" /\ si' = si + 1
      ELSE pc' = "mark_completed" /\ si' = si

\* what follows the body of the for loop
NextIteration ==
    IF si < Len(Scenarios)
      THEN pc' = "fit" /\ si' = si + 1
      ELSE pc' = "mark_completed" /\ si' = si

\* store_forecasts: the INSERTs of one scenario and their commit
StoreForecasts ==
    /\ pc = "store"
    /\ \/ /\ Raise(StorageError)
          /\ UNCHANGED <<forecasts, commits, si>>
       \/ /\ forecasts' = forecasts \o ForecastRows(fc, Scenarios[si])
          /\ commits' = Append(commits, Scenarios[si])
          /\ IF Scenarios[si] = "baseline"
               THEN pc' = "accuracy" /\ si' = si
               ELSE NextIteration
          /\ UNCHANGED raised
    /\ UNCHANGED <<df, triggers, status, error_message, metrics_col, alerts, env,
                   fc, accuracy_metrics, alert_inserts>>

\* accuracy_metrics = calculate_accuracy(df, forecasts), baseline only
CalcAccuracy ==
    /\ pc = "accuracy"
    /\ LET r == CalculateAccuracy(df)
       IN \/ /\ Len(df) >= MinAccuracyDays
             /\ Raise(ForecastFitError)
             /\ UNCHANGED <<accuracy_metrics, si>>
          \/ /\ r.raised # "none"
             /\ Raise(r.raised)
             /\ UNCHANGED <<accuracy_metrics, si>>
          \/ /\ r.raised = "none"
             /\ accuracy_metrics' = r.metrics
             /\ NextIteration
             /\ UNCHANGED raised
    /\ UNCHANGED <<df, triggers, status, error_message, metrics_col, forecasts, alerts,
                   env, fc, alert_inserts, commits>>

\* UPDATE forecast_runs SET status = 'completed', accuracy_metrics = ...; commit
MarkCompleted ==
    /\ pc = "mark_completed"
    /\ \/ /\ Raise(StorageError)
          /\ UNCHANGED <<status, metrics_col, commits>>
       \/ /\ ~ValidJson(MetricsText(accuracy_metrics))
          /\ Raise(InvalidJsonError)
          /\ UNCHANGED <<status, metrics_col, commits>>
       \/ /\ ValidJson(MetricsText(accuracy_metrics))
          /\ status' = "completed"
          /\ metrics_col' = <<MetricsText(accuracy_metrics)>>
          /\ commits' = Append(commits, "completed")
          /\ pc' = "alerts"
          /\ UNCHANGED raised
    /\ UNCHANGED <<df, triggers, error_message, forecasts, alerts, env,
                   si, fc, accuracy_metrics, alert_inserts>>

\* generate_forecast_alerts: the two SELECTs, the scan, the INSERT, the commit
GenerateForecastAlerts ==
    /\ pc = "alerts"
    /\ \/ /\ Raise(AlertError)
          /\ UNCHANGED <<alert_inserts, alerts, commits, df>>
       \/ \E id \in 1..NumAlertIds :
             LET inserts == ScanForShortage(SelectBaseline(forecasts), 1, current_balance)
                 ids == [k \in 1..Len(inserts) |-> ((id + k - 2) % NumAlertIds) + 1]
             IN /\ alert_inserts' = inserts
                /\ alerts' = InsertAlerts(alerts, ids, inserts)
                /\ commits' = Append(commits, "alerts")
                /\ pc' = "done"
                /\ df' = <<>>
                /\ UNCHANGED raised
    /\ UNCHANGED <<triggers, status, error_message, metrics_col, forecasts, env,
                   si, fc, accuracy_metrics>>

\* the except block only logging the error
HandleFailure_LogOnly ==
    /\ pc = "except"
    /\ pc' = "done"
    /\ UNCHANGED <<df, triggers, status, error_message, metrics_col, forecasts, alerts,
                   env, si, fc, accuracy_metrics, alert_inserts, raised, commits>>

\* except Exception as e: UPDATE forecast_runs SET status = 'failed'; commit
HandleFailure ==
    /\ pc = "except"
    /\ status' = "failed"
    /\ error_message' = raised
    /\ commits' = Append(commits, "failed")
    /\ pc' = "done"
    /\ df' = <<>>
    /\ UNCHANGED <<triggers, metrics_col, forecasts, alerts, env,
                   si, fc, accuracy_metrics, alert_inserts, raised>>

run_forecast_pipeline ==
    \/ MarkProcessing
    \/ FetchAndPrepare
    \/ FitScenario
    \/ StoreForecasts
    \/ CalcAccuracy
    \/ MarkCompleted
    \/ GenerateForecastAlerts
    \/ HandleFailure

Next ==
    \/ generate_forecast
    \/ MarkProcessing
    \/ FetchAndPrepare
    \/ FitScenario
    \/ StoreForecasts
    \/ CalcAccuracy
    \/ MarkCompleted
    \/ GenerateForecastAlerts
    \/ HandleFailure

Spec == Init /\ [][Next]_vars

\* the pipeline over the inputs that exercise calculate_accuracy
AccuracySpec == InitAccuracy /\ [][Next]_vars

\* the pipeline over the inputs that exercise generate_forecast_alerts
AlertSpec == InitAlerts /\ [][Next]_vars

\* a started background task runs to its end
FairSpec == Spec /\ WF_vars(run_forecast_pipeline)

(***************************************************************************)
(* Properties                                                              *)
(***************************************************************************)
\* position of a commit in the order the pipeline is meant to write
CommitRank(c) ==
    CASE c = "processing" -> 1
      [] c = "pessimistic" -> 2
      [] c = "baseline" -> 3
      [] c = "optimistic" -> 4
      [] c = "completed" -> 5
      [] c = "alerts" -> 6
      [] c = "failed" -> 7

RowsOf(scenario) == SelectSeq(forecasts, LAMBDA r : r.scenario = scenario)

\* C1: the commits of an execution come in the order mark-processing, the
\* forecast rows of pessimistic, baseline, optimistic, then the completed
\* status together with the accuracy metrics; whenever the status reads
\* 'completed' the forecast rows of all three scenarios are committed.
C1_WriteOrder ==
    /\ \A i, j \in 1..Len(commits) :
          i < j => CommitRank(commits[i]) < CommitRank(commits[j])
    /\ \A i \in 1..Len(commits) :
          commits[i] = "completed" =>
             SubSeq(commits, 1, i) =
                <<"processing", "pessimistic", "baseline", "optimistic", "completed">>
    /\ status = "completed" =>
          /\ \A s \in {"pessimistic", "baseline", "optimistic"} :
                Len(RowsOf(s)) >= horizon_days
          /\ metrics_col # <<>>
    /\ metrics_col # <<>> => Len(RowsOf("optimistic")) >= horizon_days

C1_Witness ==
    /\ status = "completed"
    /\ pc = "alerts"
    /\ Len(forecasts) = 3 * horizon_days

AlertsReturned ==
    /\ pc = "done"
    /\ commits # <<>>
    /\ commits[Len(commits)] = "alerts"

\* C3: generate_forecast_alerts reads the baseline points in ascending date
\* order and executes one critical cash_shortage INSERT, for the first point
\* whose predicted balance is below 20% of the current balance, with that
\* point's date and amount; it executes none when no point qualifies.
C3_FirstShortageOnly ==
    AlertsReturned =>
        LET rows == SelectBaseline(forecasts)
            hits == {i \in 1..Len(rows) :
                        5 * rows[i].predicted_balance < current_balance}
        IN /\ \A i, j \in 1..Len(rows) :
                 i < j => rows[i].forecast_date <= rows[j].forecast_date
           /\ Len(rows) = Len(RowsOf("baseline"))
           /\ hits = {} => alert_inserts = <<>>
           /\ hits # {} =>
                 \E i \in hits :
                    /\ \A j \in hits : i <= j
                    /\ alert_inserts =
                          <<[alert_type |-> "cash_shortage", severity |-> "critical",
                             date |-> rows[i].forecast_date,
                             amount |-> rows[i].predicted_balance]>>
           /\ \A a \in alerts :
                 \E i \in hits : /\ a.predicted_date = rows[i].forecast_date
                                 /\ a.predicted_amount = rows[i].predicted_balance
                                 /\ \A j \in hits : rows[i].forecast_date
                                                       <= rows[j].forecast_date

\* an earlier point that does not qualify, the alert, a later point that
\* qualifies with another amount
C3_Witness ==
    /\ AlertsReturned
    /\ Len(alert_inserts) = 1
    /\ LET rows == SelectBaseline(forecasts)
       IN /\ rows[1].forecast_date < alert_inserts[1].date
          /\ \E j \in 1..Len(rows) :
                /\ rows[j].forecast_date > alert_inserts[1].date
                /\ 5 * rows[j].predicted_balance < current_balance
                /\ rows[j].predicted_balance # alert_inserts[1].amount

\* C4 as stated: with current balance 0 no alert is inserted, whatever the
\* baseline forecast values are.
C4_ZeroBalanceNoAlert ==
    current_balance = 0 => alert_inserts = <<>> /\ alerts = {}

\* C4 amended: with current balance 0 no alert is inserted when no baseline
\* predicted balance is negative; the first negative one gets the alert.
C4_ZeroBalanceNoAlertUnlessNegative ==
    (current_balance = 0 /\ AlertsReturned) =>
        LET rows == SelectBaseline(forecasts)
            negative == {i \in 1..Len(rows) : rows[i].predicted_balance < 0}
        IN /\ negative = {} => alert_inserts = <<>> /\ alerts = {}
           /\ negative # {} =>
                 /\ Len(alert_inserts) = 1
                 /\ alert_inserts[1].amount < 0
                 /\ \A i \in negative :
                       alert_inserts[1].date <= rows[i].forecast_date

C4_Witness ==
    /\ current_balance = 0
    /\ AlertsReturned
    /\ alert_inserts = <<>>
    /\ alerts = {}
    /\ \E i \in 1..Len(forecasts) :
          forecasts[i].scenario = "baseline" /\ forecasts[i].predicted_balance = 0

\* C5: deriving the alerts twice for the same run, forecast and balance leaves
\* at most one alert row per predicted date.
C5_AtMostOneAlertPerDate ==
    \A a, b \in alerts : a.predicted_date = b.predicted_date => a = b

\* C6: with fewer than 90 days of history the run goes processing, then
\* failed with the insufficient-history message; no forecast row and no alert
\* are written, the status never reads 'completed', and the execution goes on
\* to no later stage.
C6_InsufficientHistoryFails ==
    Len(FetchTransactions) < MinHistoryDays =>
        /\ forecasts = <<>>
        /\ alerts = {}
        /\ alert_inserts = <<>>
        /\ status # "completed"
        /\ metrics_col = <<>>
        /\ pc \in {"idle", "mark_processing", "fetch", "except", "done"}
        /\ raised \in {"none", StorageError, InsufficientHistory}
        /\ (pc = "done" /\ raised # StorageError) =>
              /\ raised = InsufficientHistory
              /\ status = "failed"
              /\ error_message = InsufficientHistory
              /\ commits = <<"processing", "failed">>

C6_Witness ==
    /\ Len(FetchTransactions) = MinHistoryDays - 1
    /\ pc = "done"
    /\ status = "failed"
    /\ error_message = InsufficientHistory
    /\ triggers = MaxTriggers

\* the failures the pipeline's surroundings cause, as opposed to its own code
Environmental == {StorageError, ForecastFitError, AlertError}

\* C7: with 90 to 119 days of history, the fits and the writes succeeding,
\* the run ends 'completed' with the undefined metrics recorded.
C7_UndefinedAccuracyCompletes ==
    (/\ pc = "done"
     /\ Len(FetchTransactions) >= MinHistoryDays
     /\ Len(FetchTransactions) < MinAccuracyDays
     /\ raised \notin Environmental) =>
        /\ status = "completed"
        /\ metrics_col # <<>>

\* calculate_accuracy returned metrics computed from compared pairs
AccuracyCompared ==
    /\ accuracy_metrics # EmptyDict
    /\ Len(df) >= MinAccuracyDays
    /\ Len(HoldoutPredictions(df)) > 0

\* C8: when a true value of the compared holdout window is exactly zero,
\* MAPE is reported as None, and RMSE and MAE as numbers.
C8_ZeroTrueValueMapeNone ==
    (AccuracyCompared /\ LET y_true == Test(df)
                         IN \E i \in 1..Len(y_true) : y_true[i].y = 0) =>
        /\ accuracy_metrics.mape = None
        /\ accuracy_metrics.rmse.kind = "number"
        /\ accuracy_metrics.mae.kind = "number"

\* C9: the compared pairs carry the same date on both sides, and a test date
\* the prediction window misses is dropped without an error.
C9_AlignedByDate ==
    /\ raised # BroadcastError
    /\ AccuracyCompared =>
          LET pairs == ComparedPairs(df)
          IN \A i \in 1..Len(pairs) : pairs[i].true_ds = pairs[i].pred_ds

\* C10: within one execution, once the status is 'completed' it stays so.
C10_CompletedTerminal ==
    [][(status = "completed" /\ triggers' = triggers) => status' = "completed"]_vars

====
